---- MODULE Spec2Model ----
(***************************************************************************)
(* NERVE backend: the live scraper (engine/scraper.py), its in-memory      *)
(* cache and price-change detection, and the WebSocket feed (ws/feed.py)   *)
(* that queues the scraper's events and fans them out to subscribers.      *)
(*                                                                         *)
(* The program runs on one asyncio event loop: a coroutine runs without    *)
(* interruption from one await to the next, so every action below is the   *)
(* code between two suspension points of one task.                         *)
(***************************************************************************)
EXTENDS Integers, Sequences, FiniteSets, TLC

\* ---------------------------------------------------------------- bounds
MaxCycles == 3      \* _scrape_all invocations started in one behaviour
MaxUpsets == 1      \* upstream listing changes, failed calls and raised cycles in one behaviour
MaxEvents == 2      \* events emitted in one behaviour of the feed
MaxBurst == 502     \* events emitted in one behaviour of the queue alone
MaxPings == 1       \* "ping" texts received in one behaviour
MaxNotes == 11      \* failed calls in the cycle that refills the error ring
MaxSamples == 25    \* longest hourly sequence a weather response carries
MaxOutage == 7      \* failed external calls in one behaviour of the outage specification

\* ------------------------------------------------------- program constants
REGIONS == <<"francecentral", "westeurope", "uksouth">>
RegionIds == {REGIONS[i] : i \in 1..Len(REGIONS)}
PrefixTypes == <<"NC", "NV", "ND">>
QUEUE_MAXSIZE == 500

CARBON_DEFAULTS ==
  [francecentral |-> [gco2_kwh |-> 56, index |-> "low", source |-> "RTE (nuclear-dominated grid)"],
   westeurope |-> [gco2_kwh |-> 328, index |-> "moderate", source |-> "NL gas-dominated grid"],
   uksouth |-> [gco2_kwh |-> 120, index |-> "low", source |-> "Carbon Intensity UK API"]]

\* ------------------------------------------------------------ environment
\* SKU names the upstream pricing API may list; the first is in the catalog
\* of _identify_gpu, the second is not.
Skus == {"Standard_NC6s_v3", "Standard_D2s_v3"}
Prices == {1, 2}
Items == [armSkuName : Skus, retailPrice : Prices]
\* What one family query can return: no entry or one billing entry.
Listings == {<<>>} \cup {<<it>> : it \in Items}
\* The upstream at startup: the SKU is listed at price 1 by the NC query and,
\* when the upstream matches it there too, by the ND query.
Upstream(also_nd) ==
  [r \in {REGIONS[i] : i \in 1..Len(REGIONS)} |->
     [NC |-> <<[armSkuName |-> "Standard_NC6s_v3", retailPrice |-> 1]>>,
      NV |-> <<>>,
      ND |-> IF also_nd THEN <<[armSkuName |-> "Standard_NC6s_v3", retailPrice |-> 1]>>
             ELSE <<>>]]
\* The on-demand price the upstream lists for the catalog SKU in each region,
\* in the units of Prices: one that divides evenly, one that does not, and a
\* zero price.
OnDemandPrice ==
  [francecentral |-> 4, westeurope |-> 3, uksouth |-> 0]
\* The on-demand lookups of one region, one per offer, in order.
OdCalls == <<"od1", "od2", "od3">>
\* The external calls of one region's gather.
Calls(region_id) ==
  {"NC", "NV", "ND", "weather"} \cup {OdCalls[i] : i \in 1..Len(OdCalls)}
    \cup (IF region_id = "uksouth" THEN {"carbon"} ELSE {})

VARIABLES
  cache,          \* _cache of scraper.py
  scraperTask,    \* _scraper_task is not None
  startPc,        \* position of start_scraper (the lifespan's startup)
  loopPc,         \* position of the _scrape_loop task
  cyc,            \* the running _scrape_all: [id, idx] (idx = region being gathered)
  cycleSeq,       \* number of _scrape_all invocations started so far
  stopped,        \* stop_scraper has been called
  origin,         \* history: the cycle that produced each cache entry
  lastStep,       \* history: the last region installation, the events it emitted and
                  \* the calls that have failed so far in its cycle
  emitCount,      \* history: number of events passed to _emit
  market,         \* upstream: the listing each (region, family) query returns
  upsetsLeft,     \* upstream: listing changes and call failures still allowed
  raisedIn,       \* history: the _scrape_all invocations that ended with an exception
  eventQueue,     \* _event_queue of feed.py
  producerError,  \* history: an exception left _emit
  connections,    \* _connections of feed.py
  dispatcher,     \* the _event_dispatcher task and its position in _broadcast
  handler,        \* position of each websocket_feed handler
  wsOpen,         \* the client side of each socket is still connected
  wslog,          \* the messages written to each socket, in order
  joinedAt,       \* history: events emitted when the subscriber joined
  removeError,    \* history: who called remove() for a subscriber not in the list
  lastPass,       \* history: the last completed fan-out pass; late: a send was
                  \* started to a socket whose handler had already removed it
  pings,          \* history: number of "ping" texts received
  probe           \* a direct call of one function: its name, argument and result

\* probe is left alone by every step of the scheduler and of the feed.
scraperStatic == <<cache, scraperTask, startPc, loopPc, cyc, cycleSeq, stopped,
                   origin, lastStep, market, upsetsLeft, raisedIn, probe>>
feedVars == <<connections, dispatcher, handler, wsOpen, wslog, joinedAt, removeError, lastPass,
             pings, probe>>
vars == <<cache, scraperTask, startPc, loopPc, cyc, cycleSeq, stopped,
          origin, lastStep, emitCount, market, upsetsLeft, raisedIn, eventQueue, producerError,
          connections, dispatcher, handler, wsOpen, wslog, joinedAt, removeError, lastPass,
          pings, probe>>

\* Every variable except probe.
served == <<cache, scraperTask, startPc, loopPc, cyc, cycleSeq, stopped,
            origin, lastStep, emitCount, market, upsetsLeft, raisedIn, eventQueue,
            producerError, connections, dispatcher, handler, wsOpen, wslog, joinedAt,
            removeError, lastPass, pings>>

\* ---------------------------------------------------------------- helpers
\* d[k] = v on a dict modelled as a function over its keys.
DictPut(d, k, v) == [x \in (DOMAIN d) \cup {k} |-> IF x = k THEN v ELSE d[x]]
\* d.get(k, default)
DictGet(d, k, default) == IF k \in DOMAIN d THEN d[k] ELSE default
EmptyDict == [x \in {} |-> 0]

\* ------------------------------------------------------ pricing adapter
\* _identify_gpu: the catalog entry of a SKU, <<>> for None.
_identify_gpu(sku) ==
  IF sku = "Standard_NC6s_v3"
  THEN <<[name |-> "Tesla V100 (16GB)", count |-> 1, vcpus |-> 6, ram_gb |-> 112, tier |-> "high"]>>
  ELSE <<>>

\* seen[sku] = item when sku is new or item is cheaper (dict keeps first position).
SeenPut(seen, item) ==
  IF \E i \in 1..Len(seen) : seen[i].armSkuName = item.armSkuName
  THEN [i \in 1..Len(seen) |->
          IF seen[i].armSkuName = item.armSkuName /\ item.retailPrice < seen[i].retailPrice
          THEN item ELSE seen[i]]
  ELSE Append(seen, item)

RECURSIVE Dedup(_, _)
Dedup(items, seen) ==
  IF items = <<>> THEN seen ELSE Dedup(Tail(items), SeenPut(seen, Head(items)))

RECURSIVE FamilyOffers(_, _)
FamilyOffers(region_id, seen) ==
  IF seen = <<>> THEN <<>>
  ELSE LET item == Head(seen)
           info == _identify_gpu(item.armSkuName)
       IN  IF info = <<>> THEN FamilyOffers(region_id, Tail(seen))
           ELSE <<[region |-> region_id, sku |-> item.armSkuName,
                   gpu_name |-> info[1].name,
                   spot_price_usd_hr |-> item.retailPrice,
                   ondemand_price_usd_hr |-> 0,
                   savings_pct |-> 0]>>
                \o FamilyOffers(region_id, Tail(seen))

\* The loop of _scrape_azure_gpu_prices, one query per prefix type, in order:
\* the offers appended by the queries that answered.
RECURSIVE FamilyGpus(_, _, _, _)
FamilyGpus(region_id, listing, failed, i) ==
  IF i > Len(PrefixTypes) THEN <<>>
  ELSE (IF PrefixTypes[i] \in failed THEN <<>>
        ELSE FamilyOffers(region_id, Dedup(listing[PrefixTypes[i]], <<>>)))
       \o FamilyGpus(region_id, listing, failed, i + 1)

\* The same loop: the error notes appended by the queries that failed.
RECURSIVE FamilyErrors(_, _, _)
FamilyErrors(region_id, failed, i) ==
  IF i > Len(PrefixTypes) THEN <<>>
  ELSE (IF PrefixTypes[i] \in failed
        THEN <<[source |-> "Azure", region |-> region_id, call |-> PrefixTypes[i]]>>
        ELSE <<>>)
       \o FamilyErrors(region_id, failed, i + 1)

\* The family queries from the i-th on: every query runs inside a try block,
\* so a failed one adds a note, contributes no offer and raises nothing.
FamilyQueries(region_id, listing, failed, i) ==
  [gpus |-> FamilyGpus(region_id, listing, failed, i),
   errors |-> FamilyErrors(region_id, failed, i),
   raised |-> FALSE]

\* round(n / d, k) for d > 0, as an integer count of the last digit kept:
\* to the nearest, a tie to the even one.
RoundDiv(n, d) ==
  LET q == n \div d
      r == n - q * d
  IN  IF 2 * r < d THEN q
      ELSE IF 2 * r > d THEN q + 1
      ELSE IF q % 2 = 0 THEN q ELSE q + 1

\* savings_pct is kept in tenths of a percent (one decimal is kept by the code).
FALLBACK_SAVINGS == 800
FALLBACK_FACTOR == 5

\* The on-demand lookup as it would be without the estimate in its except
\* clause: a failed call leaves the offer as it was built.
EnrichedNoEstimate(gpu, od_price, call_failed) ==
  IF call_failed
  THEN gpu
  ELSE [gpu EXCEPT !.ondemand_price_usd_hr = od_price,
                   !.savings_pct = IF od_price > 0
                                   THEN RoundDiv((od_price - gpu.spot_price_usd_hr) * 1000,
                                                 od_price)
                                   ELSE @]

\* One on-demand lookup: a failed call estimates; an answer sets the on-demand
\* price and, when it is positive, the savings.
Enriched(gpu, od_price, call_failed) ==
  IF call_failed
  THEN [gpu EXCEPT !.ondemand_price_usd_hr = gpu.spot_price_usd_hr * FALLBACK_FACTOR,
                   !.savings_pct = FALLBACK_SAVINGS]
  ELSE [gpu EXCEPT !.ondemand_price_usd_hr = od_price,
                   !.savings_pct = IF od_price > 0
                                   THEN RoundDiv((od_price - gpu.spot_price_usd_hr) * 1000,
                                                 od_price)
                                   ELSE @]

\* _enrich_ondemand_prices: one lookup per offer, in list order; a failed
\* lookup adds no error note.
_enrich_ondemand_prices(region_id, gpus, failed) ==
  [i \in 1..Len(gpus) |-> Enriched(gpus[i], OnDemandPrice[region_id], OdCalls[i] \in failed)]

\* _scrape_azure_gpu_prices: the family queries, then the on-demand lookups.
_scrape_azure_gpu_prices(region_id, listing, failed, i) ==
  LET q == FamilyQueries(region_id, listing, failed, i)
  IN  [gpus |-> _enrich_ondemand_prices(region_id, q.gpus, failed),
       errors |-> q.errors,
       raised |-> q.raised]

\* ------------------------------------------------------ weather adapter
\* _scrape_weather as it would be without its try block: a failed fetch raises.
ScrapeWeatherUncaught(region_id, failed) ==
  [value |-> [current_temp_c |-> 20, current_wind_kmh |-> 5, current_solar_wm2 |-> 100,
              hourly |-> <<[hour |-> <<"time", 0>>, temp_c |-> 20, wind_kmh |-> 5,
                            solar_wm2 |-> 100]>>],
   errors |-> <<>>,
   raised |-> "weather" \in failed]

\* The hourly list: one entry per index below min(24, len(temps)), each field
\* taken from its sequence where that is long enough, else its default.
\* Python indexes from 0, so index i is element i + 1.
HourlyEntries(temps, winds, solar, hours) ==
  [k \in 1..(IF Len(temps) < 24 THEN Len(temps) ELSE 24) |->
     [hour |-> IF k - 1 < Len(hours) THEN hours[k] ELSE <<"label", k - 1>>,
      temp_c |-> IF k - 1 < Len(temps) THEN temps[k] ELSE 10,
      wind_kmh |-> IF k - 1 < Len(winds) THEN winds[k] ELSE 15,
      solar_wm2 |-> IF k - 1 < Len(solar) THEN solar[k] ELSE 0]]

\* The try block of _scrape_weather after the response was parsed.
WeatherResult(temps, winds, solar, hours, now_hour) ==
  [current_temp_c |-> IF now_hour < Len(temps) THEN temps[now_hour + 1]
                      ELSE IF temps # <<>> THEN temps[1] ELSE 10,
   current_wind_kmh |-> IF now_hour < Len(winds) THEN winds[now_hour + 1]
                        ELSE IF winds # <<>> THEN winds[1] ELSE 15,
   current_solar_wm2 |-> IF now_hour < Len(solar) THEN solar[now_hour + 1] ELSE 0,
   hourly |-> HourlyEntries(temps, winds, solar, hours)]

\* _scrape_weather on a response: <<>> when the fetch failed, else the one
\* parsed "hourly" object.
WeatherOf(region_id, response, now_hour) ==
  IF response = <<>>
  THEN [value |-> [current_temp_c |-> 10, current_wind_kmh |-> 15, current_solar_wm2 |-> 0,
                   hourly |-> <<>>],
        errors |-> <<[source |-> "Weather", region |-> region_id, call |-> "weather"]>>,
        raised |-> FALSE]
  ELSE [value |-> WeatherResult(response[1].temperature_2m, response[1].windspeed_10m,
                                response[1].direct_radiation, response[1].time, now_hour),
        errors |-> <<>>,
        raised |-> FALSE]

\* The response the weather source gives during the cycles: one sample per
\* sequence, read at hour 0.
WeatherNow ==
  [temperature_2m |-> <<20>>, windspeed_10m |-> <<5>>, direct_radiation |-> <<100>>,
   time |-> <<<<"time", 0>>>>]

_scrape_weather(region_id, failed) ==
  WeatherOf(region_id, IF "weather" \in failed THEN <<>> ELSE <<WeatherNow>>, 0)

\* ------------------------------------------------------- carbon adapter
\* _scrape_carbon as it would be if the fallback were always the first
\* region's default.
ScrapeCarbonFirstDefault(region_id, failed) ==
  IF region_id = "uksouth" /\ "carbon" \notin failed
  THEN [value |-> [gco2_kwh |-> 200, index |-> "moderate",
                   source |-> "carbonintensity.org.uk (LIVE)"],
        errors |-> <<>>,
        raised |-> FALSE]
  ELSE [value |-> CARBON_DEFAULTS["francecentral"],
        errors |-> IF region_id = "uksouth"
                   THEN <<[source |-> "Carbon UK", region |-> "UK", call |-> "carbon"]>>
                   ELSE <<>>,
        raised |-> FALSE]

\* intensity.get("actual") or intensity.get("forecast", 120): a key is <<>>
\* when absent, else <<value>>; "or" takes its right operand when the left
\* one is None or 0.
ActualOrForecast(intensity) ==
  IF intensity.actual # <<>> /\ intensity.actual[1] # 0 THEN intensity.actual[1]
  ELSE IF intensity.forecast # <<>> THEN intensity.forecast[1] ELSE 120

\* _scrape_carbon on a response: <<>> when there was no fetch or it failed,
\* else the one "intensity" object. Only uksouth has a live source; its note
\* reads "Carbon UK".
CarbonOf(region_id, response) ==
  IF region_id = "uksouth" /\ response # <<>>
  THEN [value |-> [gco2_kwh |-> ActualOrForecast(response[1]),
                   index |-> IF response[1].index # <<>> THEN response[1].index[1] ELSE "low",
                   source |-> "carbonintensity.org.uk (LIVE)"],
        errors |-> <<>>,
        raised |-> FALSE]
  ELSE [value |-> CARBON_DEFAULTS[region_id],
        errors |-> IF region_id = "uksouth"
                   THEN <<[source |-> "Carbon UK", region |-> "UK", call |-> "carbon"]>>
                   ELSE <<>>,
        raised |-> FALSE]

\* The response the carbon source gives during the cycles.
CarbonNow == [actual |-> <<200>>, forecast |-> <<180>>, index |-> <<"moderate">>]

_scrape_carbon(region_id, failed) ==
  CarbonOf(region_id, IF "carbon" \in failed THEN <<>> ELSE <<CarbonNow>>)

\* ---------------------------------------------------- event production
\* asyncio.Queue.put_nowait: QueueFull is raised when the queue holds maxsize items.
put_nowait(queue, item) ==
  IF Len(queue) >= QUEUE_MAXSIZE
  THEN [queue |-> queue, raised |-> "QueueFull"]
  ELSE [queue |-> Append(queue, item), raised |-> "none"]

\* _on_scraper_event as its comment describes it: the oldest event makes room.
OnEventDropOldest(queue, event) ==
  IF Len(queue) >= QUEUE_MAXSIZE
  THEN [queue |-> Append(Tail(queue), event), raised |-> "none"]
  ELSE [queue |-> Append(queue, event), raised |-> "none"]

\* _on_scraper_event: put_nowait with QueueFull swallowed.
_on_scraper_event(queue, event) ==
  LET r == put_nowait(queue, event)
  IN  [queue |-> r.queue, raised |-> IF r.raised = "QueueFull" THEN "none" ELSE r.raised]

\* _emit: every registered listener is called (the feed's listener is the only
\* one registered) and whatever it raises is swallowed.
_emit(queue, event) ==
  LET r == _on_scraper_event(queue, event)
  IN  [queue |-> r.queue, raised |-> FALSE]

\* old_map = {g["sku"]: g["spot_price_usd_hr"] for g in old}: the last entry of a SKU wins.
RECURSIVE OldMap(_, _)
OldMap(old, m) ==
  IF old = <<>> THEN m
  ELSE OldMap(Tail(old), DictPut(m, Head(old).sku, Head(old).spot_price_usd_hr))

\* _detect_price_changes as it would be without the "old_price is not None"
\* test: a SKU that was not listed before is reported with old price 0.
RECURSIVE DetectWithoutNoneTest(_, _, _)
DetectWithoutNoneTest(region_id, old_map, new) ==
  IF new = <<>> THEN <<>>
  ELSE LET gpu == Head(new)
           old_price == DictGet(old_map, gpu.sku, 0)
           rest == DetectWithoutNoneTest(region_id, old_map, Tail(new))
       IN  IF old_price # gpu.spot_price_usd_hr
           THEN <<[type |-> "az_price_update", region |-> region_id, instance |-> gpu.sku,
                   old_price |-> old_price, new_price |-> gpu.spot_price_usd_hr]>> \o rest
           ELSE rest

\* _detect_price_changes: the events emitted, in order of the new list.
RECURSIVE _detect_price_changes(_, _, _)
_detect_price_changes(region_id, old_map, new) ==
  IF new = <<>> THEN <<>>
  ELSE LET gpu == Head(new)
           rest == _detect_price_changes(region_id, old_map, Tail(new))
       IN  IF gpu.sku \in DOMAIN old_map /\ old_map[gpu.sku] # gpu.spot_price_usd_hr
           THEN <<[type |-> "az_price_update", region |-> region_id, instance |-> gpu.sku,
                   old_price |-> old_map[gpu.sku], new_price |-> gpu.spot_price_usd_hr]>> \o rest
           ELSE rest

\* event["timestamp"] = now: the clock is the number of events emitted so far.
Stamp(event, n) ==
  [type |-> event.type, region |-> event.region, instance |-> event.instance,
   old_price |-> event.old_price, new_price |-> event.new_price, timestamp |-> n]

\* The _emit calls of one _detect_price_changes; an exception leaving _emit
\* would end the loop.
RECURSIVE EmitAll(_, _, _)
EmitAll(queue, events, n) ==
  IF events = <<>> THEN [queue |-> queue, raised |-> FALSE]
  ELSE LET r == _emit(queue, Stamp(Head(events), n + 1))
       IN  IF r.raised THEN r ELSE EmitAll(r.queue, Tail(events), n + 1)

\* ------------------------------------------------------------ the cycle
Idle == [id |-> 0, idx |-> 0]
NoStep == [region |-> "", cycle |-> 0, old |-> <<>>, new |-> <<>>, events |-> <<>>, failed |-> {}]

\* Install as it would be if only the offer list were replaced at this point.
InstallOffersOnly(st, region_id, gpus, weather, carbon, cycle) ==
  [cache |-> [st.cache EXCEPT !.gpu_prices = DictPut(@, region_id, gpus)],
   origin |-> [st.origin EXCEPT !.gpu_prices = DictPut(@, region_id, cycle)]]

\* Install as it would be if every installation also set the timestamp.
InstallAndStamp(st, region_id, gpus, weather, carbon, cycle) ==
  [cache |-> [st.cache EXCEPT !.gpu_prices = DictPut(@, region_id, gpus),
                              !.weather = DictPut(@, region_id, weather),
                              !.carbon = DictPut(@, region_id, carbon),
                              !.last_scrape = <<cycle>>],
   origin |-> [st.origin EXCEPT !.gpu_prices = DictPut(@, region_id, cycle),
                               !.weather = DictPut(@, region_id, cycle),
                               !.carbon = DictPut(@, region_id, cycle)]]

\* Install as it would be if the entries were written only after the change
\* events of the region have been sent.
InstallDeferred(st, region_id, gpus, weather, carbon, cycle) == st

\* Lines 354-357: the three entries of one region are replaced together, with
\* no await between the assignments. st = [cache, origin].
Install(st, region_id, gpus, weather, carbon, cycle) ==
  [cache |-> [st.cache EXCEPT !.gpu_prices = DictPut(@, region_id, gpus),
                              !.weather = DictPut(@, region_id, weather),
                              !.carbon = DictPut(@, region_id, carbon)],
   origin |-> [st.origin EXCEPT !.gpu_prices = DictPut(@, region_id, cycle),
                               !.weather = DictPut(@, region_id, cycle),
                               !.carbon = DictPut(@, region_id, cycle)]]

\* LastRegionIdx as it would be if the loop stopped one region early.
LastRegionIdxShort == Len(REGIONS) - 1

\* for region_id in REGIONS: the index of the last region of a cycle.
LastRegionIdx == Len(REGIONS)

\* _scrape_all up to its first await: the error list is reset and the first
\* region's gather is started.
BeginCycle(runner) ==
  /\ cycleSeq < MaxCycles
  /\ cycleSeq' = cycleSeq + 1
  /\ cache' = [cache EXCEPT !.errors = <<>>]
  /\ cyc' = [cyc EXCEPT ![runner] = [id |-> cycleSeq + 1, idx |-> 1]]

\* start_scraper as it would be if the loop task were created before the
\* first cycle is awaited.
StartScraperTaskFirst ==
  /\ startPc = "idle"
  /\ BeginCycle("start")
  /\ startPc' = "gather"
  /\ scraperTask' = TRUE
  /\ loopPc' = "created"
  /\ UNCHANGED <<stopped, origin, lastStep, emitCount,
                 market, upsetsLeft, raisedIn, eventQueue, producerError>>

\* start_scraper, called by the lifespan at startup: the first cycle is awaited.
StartScraper ==
  /\ startPc = "idle"
  /\ BeginCycle("start")
  /\ startPc' = "gather"
  /\ UNCHANGED <<scraperTask, loopPc, stopped, origin, lastStep, emitCount,
                 market, upsetsLeft, raisedIn, eventQueue, producerError>>

\* _scrape_loop as it would be without its try block: an exception raised by
\* _scrape_all ends the task.
LoopPcUncaught == "ended"

\* _scrape_loop: an exception raised by _scrape_all is logged and the task
\* goes on to its sleep.
LoopPcAfterRaise == "sleep"

\* An exception leaves _scrape_all: start_scraper lets it through to the
\* lifespan, _scrape_loop catches it.
RaiseOut(runner) ==
  /\ raisedIn' = raisedIn \cup {cyc[runner].id}
  /\ cyc' = [cyc EXCEPT ![runner] = Idle]
  /\ IF runner = "start"
     THEN startPc' = "failed" /\ UNCHANGED loopPc
     ELSE loopPc' = LoopPcAfterRaise /\ UNCHANGED startPc

\* The gather of the current region completes: the adapters' error notes are
\* in the list; if an adapter raised, the exception leaves _scrape_all;
\* otherwise the old list is read, the triple installed, the changes detected
\* and emitted, and the next region's gather is started or the client closed.
GatherDone(runner) ==
  /\ (IF runner = "start" THEN startPc ELSE loopPc) = "gather"
  /\ \E failed \in {f \in SUBSET Calls(REGIONS[cyc[runner].idx]) :
                       Cardinality(f) <= upsetsLeft} :
       LET region_id == REGIONS[cyc[runner].idx]
           pr == _scrape_azure_gpu_prices(region_id, market[region_id], failed, 1)
           we == _scrape_weather(region_id, failed)
           ca == _scrape_carbon(region_id, failed)
           noted == [cache EXCEPT !.errors = @ \o pr.errors \o we.errors \o ca.errors]
           old_prices == DictGet(cache.gpu_prices, region_id, <<>>)
           st == Install([cache |-> noted, origin |-> origin], region_id,
                         pr.gpus, we.value, ca.value, cyc[runner].id)
           events == _detect_price_changes(region_id, OldMap(old_prices, EmptyDict), pr.gpus)
       IN  /\ \A i \in 1..Len(OdCalls) : OdCalls[i] \in failed => i <= Len(pr.gpus)
           /\ upsetsLeft' = upsetsLeft - Cardinality(failed)
           /\ IF pr.raised \/ we.raised \/ ca.raised
              THEN /\ cache' = noted
                   /\ RaiseOut(runner)
                   /\ UNCHANGED <<origin, eventQueue, producerError, emitCount, lastStep>>
              ELSE /\ cache' = st.cache
                   /\ origin' = st.origin
                   /\ eventQueue' = EmitAll(eventQueue, events, emitCount).queue
                   /\ producerError' = (producerError
                                           \/ EmitAll(eventQueue, events, emitCount).raised)
                   /\ emitCount' = emitCount + Len(events)
                   /\ lastStep' = [region |-> region_id, cycle |-> cyc[runner].id,
                                   old |-> old_prices, new |-> pr.gpus, events |-> events,
                                   failed |-> (IF cyc[runner].idx = 1 THEN {}
                                               ELSE lastStep.failed)
                                              \cup {<<region_id, c>> : c \in failed}]
                   /\ UNCHANGED raisedIn
                   /\ IF cyc[runner].idx < LastRegionIdx
                      THEN /\ cyc' = [cyc EXCEPT ![runner].idx = @ + 1]
                           /\ UNCHANGED <<startPc, loopPc>>
                      ELSE /\ UNCHANGED cyc
                           /\ IF runner = "start"
                              THEN startPc' = "closing" /\ UNCHANGED loopPc
                              ELSE loopPc' = "closing" /\ UNCHANGED startPc
  /\ UNCHANGED <<scraperTask, cycleSeq, stopped, market>>

\* Leaving the httpx.AsyncClient context raises: the exception leaves
\* _scrape_all before the timestamp and the counter are updated.
CycleRaises(runner) ==
  /\ (IF runner = "start" THEN startPc ELSE loopPc) = "closing"
  /\ upsetsLeft > 0
  /\ upsetsLeft' = upsetsLeft - 1
  /\ RaiseOut(runner)
  /\ UNCHANGED <<cache, scraperTask, cycleSeq, stopped, origin, lastStep, emitCount,
                 market, eventQueue, producerError>>

\* FinishCycle as it would be if only the counter were updated.
FinishCycleCounterOnly(runner) ==
  /\ cache' = [cache EXCEPT !.scrape_count = @ + 1]
  /\ cyc' = [cyc EXCEPT ![runner] = Idle]

\* The client context is left: timestamp and counter are updated.
FinishCycle(runner) ==
  /\ cache' = [cache EXCEPT !.last_scrape = <<cyc[runner].id>>,
                            !.scrape_count = @ + 1]
  /\ cyc' = [cyc EXCEPT ![runner] = Idle]

\* The first cycle ends: start_scraper creates the loop task and returns.
StartReturn ==
  /\ startPc = "closing"
  /\ FinishCycle("start")
  /\ startPc' = "returned"
  /\ scraperTask' = TRUE
  /\ loopPc' = "created"
  /\ UNCHANGED <<cycleSeq, stopped, origin, lastStep, emitCount,
                 market, upsetsLeft, raisedIn, eventQueue, producerError>>

\* _scrape_loop: a cycle of the loop ends and the task sleeps.
LoopCycleEnd ==
  /\ loopPc = "closing"
  /\ FinishCycle("loop")
  /\ loopPc' = "sleep"
  /\ UNCHANGED <<scraperTask, startPc, cycleSeq, stopped, origin, lastStep, emitCount,
                 market, upsetsLeft, raisedIn, eventQueue, producerError>>

\* _scrape_loop: the task runs for the first time, or its sleep has elapsed.
LoopCycleBegin ==
  /\ loopPc \in {"created", "sleep"}
  /\ BeginCycle("loop")
  /\ loopPc' = "gather"
  /\ UNCHANGED <<scraperTask, startPc, stopped, origin, lastStep, emitCount,
                 market, upsetsLeft, raisedIn, eventQueue, producerError>>

\* stop_scraper as it would be if it only forgot the task without cancelling it.
StopScraperNoCancel ==
  /\ startPc = "returned"
  /\ ~stopped
  /\ stopped' = TRUE
  /\ scraperTask' = FALSE
  /\ UNCHANGED <<loopPc, cyc>>
  /\ UNCHANGED <<cache, startPc, cycleSeq, origin, lastStep, emitCount,
                 market, upsetsLeft, raisedIn, eventQueue, producerError>>

\* stop_scraper, called by the lifespan at shutdown: the task is cancelled at
\* the await it is suspended in (CancelledError is not an Exception).
StopScraper ==
  /\ startPc = "returned"
  /\ ~stopped
  /\ stopped' = TRUE
  /\ IF scraperTask
     THEN /\ scraperTask' = FALSE
          /\ loopPc' = "cancelled"
          /\ cyc' = [cyc EXCEPT !["loop"] = Idle]
     ELSE UNCHANGED <<scraperTask, loopPc, cyc>>
  /\ UNCHANGED <<cache, startPc, cycleSeq, origin, lastStep, emitCount,
                 market, upsetsLeft, raisedIn, eventQueue, producerError>>

\* A listing with every entry of one SKU at a new price.
Repriced(listing, sku, price) ==
  [i \in 1..Len(listing) |->
     IF listing[i].armSkuName = sku THEN [listing[i] EXCEPT !.retailPrice = price]
     ELSE listing[i]]

\* Upstream: in one region, the answer to one family query changes, or one
\* SKU gets a new price in every query that lists it.
MarketMove ==
  /\ upsetsLeft > 0
  /\ upsetsLeft' = upsetsLeft - 1
  /\ \E r \in RegionIds :
       \/ \E f \in {"NC", "NV", "ND"}, l \in Listings :
            /\ l # market[r][f]
            /\ market' = [market EXCEPT ![r][f] = l]
       \/ \E sku \in Skus, price \in Prices :
            /\ market' = [market EXCEPT ![r] = [f \in DOMAIN market[r] |->
                                                  Repriced(market[r][f], sku, price)]]
            /\ market' # market
  /\ UNCHANGED <<cache, scraperTask, startPc, loopPc, cyc, cycleSeq, stopped,
                 origin, lastStep, emitCount, raisedIn, eventQueue, producerError>>

\* ------------------------------------------------------------- status
RECURSIVE SumLen(_, _)
SumLen(d, keys) ==
  IF keys = {} THEN 0
  ELSE LET k == CHOOSE x \in keys : TRUE IN Len(d[k]) + SumLen(d, keys \ {k})

\* The status summary as it would be if it returned errors[:10].
FirstTen(errs) == IF Len(errs) <= 10 THEN errs ELSE SubSeq(errs, 1, 10)

\* errors[-10:]
LastTen(errs) == IF Len(errs) <= 10 THEN errs ELSE SubSeq(errs, Len(errs) - 9, Len(errs))

get_scraper_status(c) ==
  [last_scrape |-> c.last_scrape,
   scrape_count |-> c.scrape_count,
   total_gpus |-> SumLen(c.gpu_prices, DOMAIN c.gpu_prices),
   regions |-> DOMAIN c.gpu_prices,
   errors |-> LastTen(c.errors)]

\* get_cache: the cache object itself is returned.
get_cache(c) == c

\* get_region_data: an unknown region is read as francecentral; missing
\* entries are read as empty and missing fields as their defaults; one zone
\* entry per configured zone, the i-th (from 0) with temperature
\* + (i * 0.2 - 0.2) and wind + (i * 0.5 - 0.5), both in tenths here.
get_region_data(c, region_id) ==
  LET rid == IF region_id \in RegionIds THEN region_id ELSE "francecentral"
      gpus_raw == DictGet(c.gpu_prices, rid, <<>>)
      temp == IF rid \in DOMAIN c.weather THEN c.weather[rid].current_temp_c ELSE 10
      wind == IF rid \in DOMAIN c.weather THEN c.weather[rid].current_wind_kmh ELSE 15
      gco2 == IF rid \in DOMAIN c.carbon THEN c.carbon[rid].gco2_kwh ELSE 56
      idx == IF rid \in DOMAIN c.carbon THEN c.carbon[rid].index ELSE "low"
      gpu_instances == [k \in 1..Len(gpus_raw) |->
                          [sku |-> gpus_raw[k].sku,
                           gpu_name |-> gpus_raw[k].gpu_name,
                           spot_price_usd_hr |-> gpus_raw[k].spot_price_usd_hr,
                           ondemand_price_usd_hr |-> gpus_raw[k].ondemand_price_usd_hr,
                           savings_pct |-> gpus_raw[k].savings_pct]]
  IN  [region_id |-> rid,
       availability_zones |->
         [k \in 1..3 |->
            [gpu_instances |-> gpu_instances,
             carbon_intensity_gco2_kwh |-> gco2,
             carbon_index |-> idx,
             temperature_c |-> temp * 10 + (k - 1) * 2 - 2,
             wind_kmh |-> wind * 10 + (k - 1) * 5 - 5]]]

\* --------------------------------------------------------------- the feed
\* The sockets that may connect in one behaviour.
Clients == {"ws1", "ws2"}
NoPass == [passes |-> 0, failed |-> FALSE, missed |-> FALSE, crashed |-> FALSE, late |-> FALSE]
NoTask == [task |-> "none", event |-> <<>>, idx |-> 0, cur |-> "", written |-> FALSE,
           dead |-> <<>>, members |-> {}, attempted |-> {}]
Waiting == [NoTask EXCEPT !.task = "get"]

Members(conns) == {conns[i] : i \in 1..Len(conns)}

\* list.remove(x): the first occurrence is removed; x must be in the list.
RECURSIVE ListRemove(_, _)
ListRemove(list, x) ==
  IF list = <<>> THEN <<>>
  ELSE IF Head(list) = x THEN Tail(list)
  ELSE <<Head(list)>> \o ListRemove(Tail(list), x)

\* for ws in dead: _connections.remove(ws), up to the first ValueError.
RECURSIVE RemoveDead(_, _)
RemoveDead(conns, dead) ==
  IF dead = <<>> THEN [conns |-> conns, raised |-> FALSE]
  ELSE IF Head(dead) \notin Members(conns) THEN [conns |-> conns, raised |-> TRUE]
  ELSE RemoveDead(ListRemove(conns, Head(dead)), Tail(dead))

\* ws.send_text: the frame is written when the call is made, if the client is
\* still connected; the await completes later. It raises when nothing was
\* written; when the client went away after the frame was written it may
\* complete or raise.
Written(log, open, ws, msg) ==
  IF open[ws] THEN [log EXCEPT ![ws] = Append(@, msg)] ELSE log

\* ensure_dispatcher: a task is created when there is none or it is done.
ensure_dispatcher(d) == IF d.task \in {"none", "done"} THEN Waiting ELSE d

\* The welcome message of websocket_feed.
Welcome(c, conns) ==
  [type |-> "connected", scraper_status |-> get_scraper_status(c),
   active_clients |-> Len(conns)]

\* _broadcast from the end of one send to the next await: the list iterator
\* takes the element at its index in the list as it is now; when there is
\* none the dead sockets are removed and the dispatcher awaits the queue again
\* (or ends with the ValueError of remove). d is the dispatcher with dead
\* already updated.
Advance(d, conns) ==
  IF d.idx < Len(conns)
  THEN [disp |-> [d EXCEPT !.idx = @ + 1, !.cur = conns[d.idx + 1], !.task = "sending",
                           !.written = wsOpen[conns[d.idx + 1]],
                           !.attempted = @ \cup {conns[d.idx + 1]}],
        conns |-> conns, send |-> <<conns[d.idx + 1]>>, ended |-> FALSE, raised |-> FALSE]
  ELSE LET r == RemoveDead(conns, d.dead)
       IN  [disp |-> [NoTask EXCEPT !.task = IF r.raised THEN "done" ELSE "get"],
            conns |-> r.conns, send |-> <<>>, ended |-> TRUE, raised |-> r.raised]

\* The effects of Advance on the state.
Broadcast(d) ==
  LET a == Advance(d, connections)
  IN  /\ dispatcher' = a.disp
      /\ connections' = a.conns
      /\ wslog' = IF a.send = <<>> THEN wslog
                  ELSE Written(wslog, wsOpen, a.send[1], d.event[1])
      /\ removeError' = IF a.raised THEN removeError \cup {"broadcast"} ELSE removeError
      /\ lastPass' = IF a.ended
                     THEN [passes |-> 1,
                           failed |-> d.dead # <<>>,
                           missed |-> (d.members \cap Members(connections)) \ d.attempted # {},
                           crashed |-> a.raised,
                           late |-> lastPass.late]
                     ELSE [lastPass EXCEPT !.late = @ \/ handler[a.send[1]] = "closed"]

\* DispatcherGet as it would be if the event were read from the head of the
\* queue and left there.
DispatcherPeek ==
  /\ dispatcher.task = "get"
  /\ eventQueue # <<>>
  /\ eventQueue' = eventQueue
  /\ Broadcast([dispatcher EXCEPT !.event = <<Head(eventQueue)>>, !.idx = 0, !.dead = <<>>,
                                  !.members = Members(connections), !.attempted = {}])
  /\ UNCHANGED <<handler, wsOpen, joinedAt, producerError, emitCount, pings>>

\* _event_dispatcher: an event is taken from the queue and its broadcast starts.
DispatcherGet ==
  /\ dispatcher.task = "get"
  /\ eventQueue # <<>>
  /\ eventQueue' = Tail(eventQueue)
  /\ Broadcast([dispatcher EXCEPT !.event = <<Head(eventQueue)>>, !.idx = 0, !.dead = <<>>,
                                  !.members = Members(connections), !.attempted = {}])
  /\ UNCHANGED <<handler, wsOpen, joinedAt, producerError, emitCount, pings>>

\* _broadcast: the pending send_text completes, or raises and the socket is
\* noted as dead.
SendDone ==
  /\ dispatcher.task = "sending"
  /\ \/ /\ dispatcher.written
        /\ Broadcast(dispatcher)
     \/ /\ ~wsOpen[dispatcher.cur]
        /\ Broadcast([dispatcher EXCEPT !.dead = Append(@, dispatcher.cur)])
  /\ UNCHANGED <<eventQueue, handler, wsOpen, joinedAt, producerError, emitCount, pings>>

\* Connect as it would be if the welcome message were not sent in the same
\* step that adds the socket to the list.
ConnectWelcomeNotSent(ws) ==
  /\ handler[ws] = "new"
  /\ wsOpen[ws]
  /\ connections' = Append(connections, ws)
  /\ dispatcher' = ensure_dispatcher(dispatcher)
  /\ handler' = [handler EXCEPT ![ws] = "welcome"]
  /\ joinedAt' = [joinedAt EXCEPT ![ws] = emitCount]
  /\ UNCHANGED <<eventQueue, wsOpen, wslog, removeError, lastPass, producerError, emitCount, pings>>

\* websocket_feed after accept: the socket joins the list, the dispatcher is
\* ensured and the welcome message is sent.
Connect(ws) ==
  /\ handler[ws] = "new"
  /\ wsOpen[ws]
  /\ connections' = Append(connections, ws)
  /\ dispatcher' = ensure_dispatcher(dispatcher)
  /\ wslog' = Written(wslog, wsOpen, ws, Welcome(cache, connections'))
  /\ handler' = [handler EXCEPT ![ws] = "welcome"]
  /\ joinedAt' = [joinedAt EXCEPT ![ws] = emitCount]
  /\ UNCHANGED <<eventQueue, wsOpen, removeError, lastPass, producerError, emitCount, pings>>

\* websocket_feed: the welcome send completes and receive_text is awaited; if
\* it raises, the handler ends outside its try block.
WelcomeDone(ws) ==
  /\ handler[ws] = "welcome"
  /\ \/ handler' = [handler EXCEPT ![ws] = "recv"]
     \/ ~wsOpen[ws] /\ handler' = [handler EXCEPT ![ws] = "failed"]
  /\ UNCHANGED <<eventQueue, connections, dispatcher, wsOpen, wslog, joinedAt,
                 removeError, lastPass, producerError, emitCount, pings>>

\* The client goes away.
ClientClose(ws) ==
  /\ handler[ws] # "new"
  /\ wsOpen[ws]
  /\ wsOpen' = [wsOpen EXCEPT ![ws] = FALSE]
  /\ UNCHANGED <<eventQueue, connections, dispatcher, handler, wslog, joinedAt,
                 removeError, lastPass, producerError, emitCount, pings>>

\* websocket_feed: receive_text returns "ping" and the pong is sent.
Ping(ws) ==
  /\ handler[ws] = "recv"
  /\ wsOpen[ws]
  /\ pings < MaxPings
  /\ pings' = pings + 1
  /\ wslog' = Written(wslog, wsOpen, ws, [type |-> "pong"])
  /\ UNCHANGED <<eventQueue, connections, dispatcher, handler, wsOpen, joinedAt,
                 removeError, lastPass, producerError, emitCount>>

\* websocket_feed: receive_text raises WebSocketDisconnect and the handler
\* removes its socket from the list.
Disconnect(ws) ==
  /\ handler[ws] = "recv"
  /\ ~wsOpen[ws]
  /\ IF ws \in Members(connections)
     THEN /\ connections' = ListRemove(connections, ws)
          /\ handler' = [handler EXCEPT ![ws] = "closed"]
          /\ UNCHANGED removeError
     ELSE /\ handler' = [handler EXCEPT ![ws] = "failed"]
          /\ removeError' = removeError \cup {"handler"}
          /\ UNCHANGED connections
  /\ UNCHANGED <<eventQueue, dispatcher, wsOpen, wslog, joinedAt, lastPass,
                 producerError, emitCount, pings>>

\* The scraper emits one price-change event.
ScraperEmits(limit) ==
  /\ emitCount < limit
  /\ LET event == Stamp([type |-> "az_price_update", region |-> "francecentral",
                         instance |-> "Standard_NC6s_v3", old_price |-> 1, new_price |-> 2],
                        emitCount + 1)
         r == _emit(eventQueue, event)
     IN  /\ eventQueue' = r.queue
         /\ producerError' = (producerError \/ r.raised)
  /\ emitCount' = emitCount + 1
  /\ UNCHANGED feedVars

\* --------------------------------------------------------- specifications
InitScraper ==
  /\ cache = [last_scrape |-> <<>>, gpu_prices |-> EmptyDict, weather |-> EmptyDict,
              carbon |-> EmptyDict, scrape_count |-> 0, errors |-> <<>>]
  /\ scraperTask = FALSE
  /\ startPc = "idle"
  /\ loopPc = "none"
  /\ cyc = [start |-> Idle, loop |-> Idle]
  /\ cycleSeq = 0
  /\ stopped = FALSE
  /\ origin = [gpu_prices |-> EmptyDict, weather |-> EmptyDict, carbon |-> EmptyDict]
  /\ lastStep = NoStep
  /\ emitCount = 0
  /\ market \in {Upstream(FALSE), Upstream(TRUE)}
  /\ upsetsLeft = MaxUpsets
  /\ raisedIn = {}

InitFeed ==
  /\ eventQueue = <<>>
  /\ producerError = FALSE
  /\ connections = <<>>
  /\ dispatcher = NoTask
  /\ handler = [ws \in Clients |-> "new"]
  /\ wsOpen = [ws \in Clients |-> TRUE]
  /\ wslog = [ws \in Clients |-> <<>>]
  /\ joinedAt = [ws \in Clients |-> 0]
  /\ removeError = {}
  /\ lastPass = NoPass
  /\ pings = 0

NoProbe == [fn |-> "none", arg |-> <<>>, out |-> <<>>]

Init == InitScraper /\ InitFeed /\ probe = NoProbe

\* The installations of cycle number id when no external call fails.
RECURSIVE QuietCycle(_, _, _)
QuietCycle(st, i, id) ==
  IF i > Len(REGIONS) THEN st
  ELSE LET region_id == REGIONS[i]
       IN  QuietCycle(Install(st, region_id,
                              _scrape_azure_gpu_prices(region_id, market[region_id], {}, 1).gpus,
                              _scrape_weather(region_id, {}).value,
                              _scrape_carbon(region_id, {}).value, id), i + 1, id)

\* The first cycle of start_scraper when no external call fails.
FirstCycle(st, i) == QuietCycle(st, i, 1)

\* The service is ready: start_scraper has returned and requests are served.
InitServing ==
  /\ market = Upstream(FALSE)
  /\ LET st == FirstCycle([cache |-> [last_scrape |-> <<1>>, gpu_prices |-> EmptyDict,
                                     weather |-> EmptyDict, carbon |-> EmptyDict,
                                     scrape_count |-> 1, errors |-> <<>>],
                           origin |-> [gpu_prices |-> EmptyDict, weather |-> EmptyDict,
                                       carbon |-> EmptyDict]], 1)
     IN  /\ cache = st.cache
         /\ origin = st.origin
         /\ lastStep = [region |-> REGIONS[Len(REGIONS)], cycle |-> 1, old |-> <<>>,
                        new |-> st.cache.gpu_prices[REGIONS[Len(REGIONS)]], events |-> <<>>,
                        failed |-> {}]
  /\ scraperTask = TRUE
  /\ startPc = "returned"
  /\ loopPc = "created"
  /\ cyc = [start |-> Idle, loop |-> Idle]
  /\ cycleSeq = 1
  /\ stopped = FALSE
  /\ emitCount = 0
  /\ upsetsLeft = MaxUpsets
  /\ raisedIn = {}

Next ==
  \/ StartScraper /\ UNCHANGED feedVars
  \/ GatherDone("start") /\ UNCHANGED feedVars
  \/ StartReturn /\ UNCHANGED feedVars
  \/ LoopCycleBegin /\ UNCHANGED feedVars
  \/ GatherDone("loop") /\ UNCHANGED feedVars
  \/ LoopCycleEnd /\ UNCHANGED feedVars
  \/ CycleRaises("start") /\ UNCHANGED feedVars
  \/ CycleRaises("loop") /\ UNCHANGED feedVars
  \/ StopScraper /\ UNCHANGED feedVars
  \/ MarketMove /\ UNCHANGED feedVars

Spec == Init /\ [][Next]_vars

\* The feed alone: subscribers come and go while the scraper emits events.
NextFeed ==
  \/ \E ws \in Clients : Connect(ws) /\ UNCHANGED scraperStatic
  \/ \E ws \in Clients : WelcomeDone(ws) /\ UNCHANGED scraperStatic
  \/ \E ws \in Clients : ClientClose(ws) /\ UNCHANGED scraperStatic
  \/ \E ws \in Clients : Ping(ws) /\ UNCHANGED scraperStatic
  \/ \E ws \in Clients : Disconnect(ws) /\ UNCHANGED scraperStatic
  \/ DispatcherGet /\ UNCHANGED scraperStatic
  \/ SendDone /\ UNCHANGED scraperStatic
  \/ ScraperEmits(MaxEvents) /\ UNCHANGED scraperStatic

InitServingFeed == InitServing /\ InitFeed /\ probe = NoProbe

SpecFeed == InitServingFeed /\ [][NextFeed]_vars

\* The queue alone: the only subscriber so far has come and gone, so the
\* dispatcher exists, and the scraper emits more events than the queue holds.
InitQueue ==
  /\ eventQueue = <<>>
  /\ producerError = FALSE
  /\ connections = <<>>
  /\ dispatcher = Waiting
  /\ handler = [ws \in Clients |-> IF ws = "ws1" THEN "closed" ELSE "new"]
  /\ wsOpen = [ws \in Clients |-> ws # "ws1"]
  /\ wslog = [ws \in Clients |-> IF ws = "ws1" THEN <<Welcome(cache, <<"ws1">>)>> ELSE <<>>]
  /\ joinedAt = [ws \in Clients |-> 0]
  /\ removeError = {}
  /\ lastPass = NoPass
  /\ pings = 0

NextQueue ==
  \/ ScraperEmits(MaxBurst) /\ UNCHANGED scraperStatic
  \/ DispatcherGet /\ UNCHANGED scraperStatic

InitServingQueue == InitServing /\ InitQueue /\ probe = NoProbe

SpecQueue == InitServingQueue /\ [][NextQueue]_vars

\* One cycle under an outage: the service has been running undisturbed, the
\* loop task sleeps after its latest cycle, and in the next cycle any of the
\* external calls may fail, up to MaxOutage of them.
InitOutage ==
  /\ market \in {Upstream(FALSE), Upstream(TRUE)}
  /\ LET k == MaxCycles - 1
         last == REGIONS[Len(REGIONS)]
         st == QuietCycle([cache |-> [last_scrape |-> <<k>>, gpu_prices |-> EmptyDict,
                                     weather |-> EmptyDict, carbon |-> EmptyDict,
                                     scrape_count |-> k, errors |-> <<>>],
                           origin |-> [gpu_prices |-> EmptyDict, weather |-> EmptyDict,
                                       carbon |-> EmptyDict]], 1, k)
     IN  /\ cache = st.cache
         /\ origin = st.origin
         /\ lastStep = [region |-> last, cycle |-> k, old |-> st.cache.gpu_prices[last],
                        new |-> st.cache.gpu_prices[last], events |-> <<>>, failed |-> {}]
         /\ cycleSeq = k
  /\ scraperTask = TRUE
  /\ startPc = "returned"
  /\ loopPc = "sleep"
  /\ cyc = [start |-> Idle, loop |-> Idle]
  /\ stopped = FALSE
  /\ emitCount = 0
  /\ upsetsLeft = MaxOutage
  /\ raisedIn = {}
  /\ InitFeed
  /\ probe = NoProbe

NextOutage ==
  \/ LoopCycleBegin /\ UNCHANGED feedVars
  \/ GatherDone("loop") /\ UNCHANGED feedVars
  \/ LoopCycleEnd /\ UNCHANGED feedVars

SpecOutage == InitOutage /\ [][NextOutage]_vars

\* The calls of a region that leave an error note when they fail.
NotedCalls(region_id) ==
  {"NC", "NV", "ND", "weather"} \cup (IF region_id = "uksouth" THEN {"carbon"} ELSE {})

\* The installations and the error notes of cycle number id when the calls
\* in down fail in every region (no offer is found, so no on-demand lookup
\* is made).
RECURSIVE OutageCycle(_, _, _, _)
OutageCycle(st, i, id, down) ==
  IF i > Len(REGIONS) THEN st
  ELSE LET region_id == REGIONS[i]
           failed == down \cap NotedCalls(region_id)
           pr == _scrape_azure_gpu_prices(region_id, market[region_id], failed, 1)
           we == _scrape_weather(region_id, failed)
           ca == _scrape_carbon(region_id, failed)
           noted == [st EXCEPT !.cache.errors = @ \o pr.errors \o we.errors \o ca.errors]
       IN  OutageCycle(Install(noted, region_id, pr.gpus, we.value, ca.value, id),
                       i + 1, id, down)

\* The error ring across two cycles: the loop task sleeps after a cycle in
\* which either no call failed or every family query, weather fetch and
\* carbon fetch failed, and in the next cycle up to MaxNotes calls fail.
InitRing ==
  /\ market = Upstream(FALSE)
  /\ \E down \in {{}, {"NC", "NV", "ND", "weather", "carbon"}} :
       LET k == MaxCycles - 1
           last == REGIONS[Len(REGIONS)]
           st == OutageCycle([cache |-> [last_scrape |-> <<k>>, gpu_prices |-> EmptyDict,
                                         weather |-> EmptyDict, carbon |-> EmptyDict,
                                         scrape_count |-> k, errors |-> <<>>],
                              origin |-> [gpu_prices |-> EmptyDict, weather |-> EmptyDict,
                                          carbon |-> EmptyDict]], 1, k, down)
       IN  /\ cache = st.cache
           /\ origin = st.origin
           /\ lastStep = [region |-> last, cycle |-> k, old |-> st.cache.gpu_prices[last],
                          new |-> st.cache.gpu_prices[last], events |-> <<>>,
                          failed |-> {<<REGIONS[i], c>> : i \in 1..Len(REGIONS), c \in down}]
           /\ cycleSeq = k
  /\ scraperTask = TRUE
  /\ startPc = "returned"
  /\ loopPc = "sleep"
  /\ cyc = [start |-> Idle, loop |-> Idle]
  /\ stopped = FALSE
  /\ emitCount = 0
  /\ upsetsLeft = MaxNotes
  /\ raisedIn = {}
  /\ InitFeed
  /\ probe = NoProbe

NextRing ==
  \/ LoopCycleBegin /\ UNCHANGED feedVars
  \/ GatherDone("loop") /\ UNCHANGED feedVars
  \/ LoopCycleEnd /\ UNCHANGED feedVars

SpecRing == InitRing /\ [][NextRing]_vars

\* ---------------------------------------------------- the readers
\* The region names a request may carry: the tracked ones and an unknown one.
RequestRegions == RegionIds \cup {"eastus"}

\* A request handler calls get_region_data. One direct call is recorded per
\* behaviour.
ReadRegion(region_id) ==
  /\ probe.fn = "none"
  /\ startPc = "returned"
  /\ probe' = [fn |-> "get_region_data", arg |-> <<region_id>>,
               out |-> <<get_region_data(cache, region_id)>>]
  /\ UNCHANGED served

\* A request handler calls get_cache.
ReadCache ==
  /\ probe.fn = "none"
  /\ startPc = "returned"
  /\ probe' = [fn |-> "get_cache", arg |-> <<>>, out |-> <<get_cache(cache)>>]
  /\ UNCHANGED served

\* A request handler calls get_scraper_status.
ReadStatus ==
  /\ probe.fn = "none"
  /\ startPc = "returned"
  /\ probe' = [fn |-> "get_scraper_status", arg |-> <<>>,
               out |-> <<get_scraper_status(cache)>>]
  /\ UNCHANGED served

\* The loop task's cycles, in which calls may fail, with a read at any point
\* between their steps.
NextReaders ==
  \/ LoopCycleBegin /\ UNCHANGED feedVars
  \/ GatherDone("loop") /\ UNCHANGED feedVars
  \/ LoopCycleEnd /\ UNCHANGED feedVars
  \/ \E region_id \in RequestRegions : ReadRegion(region_id)
  \/ ReadCache
  \/ ReadStatus

SpecReaders == InitServingFeed /\ [][NextReaders]_vars

\* The feed under fair scheduling: the event loop runs the dispatcher task
\* whenever it can take a step, i.e. when it awaits a queue that holds an
\* event and when a send it awaits has completed or failed. Clients connect
\* and leave as they please.
SpecFeedFair ==
  /\ InitServingFeed
  /\ [][NextFeed]_vars
  /\ WF_vars(DispatcherGet /\ UNCHANGED scraperStatic)
  /\ WF_vars(SendDone /\ UNCHANGED scraperStatic)

\* ------------------------------------------------- the adapters alone
\* An hourly sequence of n samples, all different: sample i is base + i.
Samples(n, base) == [i \in 1..n |-> base + i]
\* The "time" sequence of n entries.
Stamps(n) == [i \in 1..n |-> <<"time", i - 1>>]
\* The lengths a fetched sequence may have: none, fewer than a day's 24
\* samples, more than 24.
SampleCounts == {0, 1, 3, MaxSamples}

\* The "hourly" objects a weather response may carry.
WeatherResponses ==
  {[temperature_2m |-> Samples(nt, 100), windspeed_10m |-> Samples(nw, 200),
    direct_radiation |-> Samples(ns, 300), time |-> Stamps(nh)] :
     nt \in SampleCounts, nw \in SampleCounts, ns \in SampleCounts, nh \in SampleCounts}

\* The calls of _scrape_weather: a region, a failed fetch or a response, and
\* the UTC hour of the call.
WeatherCalls ==
  {[fn |-> "_scrape_weather",
    arg |-> [region_id |-> "francecentral", response |-> resp, now_hour |-> h],
    out |-> <<>>] :
     resp \in {<<>>} \cup {<<w>> : w \in WeatherResponses}, h \in 0..23}

\* The "intensity" objects a carbon response may carry.
CarbonResponses ==
  [actual : {<<>>, <<0>>, <<200>>}, forecast : {<<>>, <<0>>, <<180>>},
   index : {<<>>, <<"moderate">>}]

\* The calls of _scrape_carbon: a fetch is made for uksouth only.
CarbonCalls ==
  {[fn |-> "_scrape_carbon", arg |-> [region_id |-> r, response |-> resp], out |-> <<>>] :
     r \in RegionIds \ {"uksouth"}, resp \in {<<>>}}
  \cup
  {[fn |-> "_scrape_carbon", arg |-> [region_id |-> "uksouth", response |-> resp],
    out |-> <<>>] :
     resp \in {<<>>} \cup {<<c>> : c \in CarbonResponses}}

\* _scrape_weather is called and returns; a failure note goes to the cache.
CallScrapeWeather ==
  /\ probe.fn = "_scrape_weather"
  /\ probe.out = <<>>
  /\ LET r == WeatherOf(probe.arg.region_id, probe.arg.response, probe.arg.now_hour)
     IN  /\ probe' = [probe EXCEPT !.out = <<r.value>>]
         /\ cache' = [cache EXCEPT !.errors = @ \o r.errors]
  /\ UNCHANGED <<scraperTask, startPc, loopPc, cyc, cycleSeq, stopped, origin, lastStep,
                 emitCount, market, upsetsLeft, raisedIn, eventQueue, producerError,
                 connections, dispatcher, handler, wsOpen, wslog, joinedAt, removeError,
                 lastPass, pings>>

\* _scrape_carbon is called and returns; a failure note goes to the cache.
CallScrapeCarbon ==
  /\ probe.fn = "_scrape_carbon"
  /\ probe.out = <<>>
  /\ LET r == CarbonOf(probe.arg.region_id, probe.arg.response)
     IN  /\ probe' = [probe EXCEPT !.out = <<r.value>>]
         /\ cache' = [cache EXCEPT !.errors = @ \o r.errors]
  /\ UNCHANGED <<scraperTask, startPc, loopPc, cyc, cycleSeq, stopped, origin, lastStep,
                 emitCount, market, upsetsLeft, raisedIn, eventQueue, producerError,
                 connections, dispatcher, handler, wsOpen, wslog, joinedAt, removeError,
                 lastPass, pings>>

\* One call of an adapter on one input, before the scheduler is started.
InitAdapters ==
  /\ InitScraper
  /\ InitFeed
  /\ probe \in WeatherCalls \cup CarbonCalls

NextAdapters ==
  \/ CallScrapeWeather
  \/ CallScrapeCarbon

SpecAdapters == InitAdapters /\ [][NextAdapters]_vars

\* The scheduler alone, from the moment the service is ready. The event loop
\* runs the loop task whenever it can take a step: a sleep that has elapsed
\* and a client context that has closed are followed by the task's next step.
\* Every external call answers or fails within its timeout (10 or 15 seconds),
\* so no gather stays pending for ever; GatherDone is enabled exactly while
\* the task is in a gather and a cycle has three of them, so this is what weak
\* fairness of GatherDone amounts to. Nothing obliges shutdown, an upstream
\* change or a failure to happen.
NextLive ==
  \/ LoopCycleBegin /\ UNCHANGED feedVars
  \/ GatherDone("loop") /\ UNCHANGED feedVars
  \/ LoopCycleEnd /\ UNCHANGED feedVars
  \/ CycleRaises("loop") /\ UNCHANGED feedVars
  \/ StopScraper /\ UNCHANGED feedVars
  \/ MarketMove /\ UNCHANGED feedVars

SpecLive ==
  /\ InitServingFeed
  /\ [][NextLive]_vars
  /\ WF_vars(LoopCycleBegin /\ UNCHANGED feedVars)
  /\ WF_vars(LoopCycleEnd /\ UNCHANGED feedVars)
  /\ []<>(loopPc # "gather")

\* ------------------------------------------------------------------ claims
Elems(seq) == {seq[i] : i \in 1..Len(seq)}
EventsFor(events, sku) == {i \in 1..Len(events) : events[i].instance = sku}

\* C1: in every state and for every region, the offer list, the weather
\* sample and the carbon sample in the cache are either all absent or all
\* present and installed by the same cycle, also when the loop task is
\* cancelled part-way through a cycle.
C1_RegionFromOneCycle ==
  \A r \in RegionIds :
    \/ /\ r \notin DOMAIN cache.gpu_prices
       /\ r \notin DOMAIN cache.weather
       /\ r \notin DOMAIN cache.carbon
    \/ /\ r \in DOMAIN cache.gpu_prices
       /\ r \in DOMAIN cache.weather
       /\ r \in DOMAIN cache.carbon
       /\ origin.gpu_prices[r] = origin.weather[r]
       /\ origin.weather[r] = origin.carbon[r]

\* C1 witness: the loop task was cancelled in the middle of the second cycle,
\* which had installed the first region but not the last.
C1_Witness ==
  /\ stopped
  /\ loopPc = "cancelled"
  /\ "uksouth" \in DOMAIN origin.carbon
  /\ origin.gpu_prices["francecentral"] = 2
  /\ origin.carbon["uksouth"] = 1

\* C2: once start_scraper has returned, the cache holds an offer list, a
\* weather sample and a carbon sample for every tracked region.
C2_CompleteOnceReady ==
  startPc = "returned" =>
    \A r \in RegionIds :
      /\ r \in DOMAIN cache.gpu_prices
      /\ r \in DOMAIN cache.weather
      /\ r \in DOMAIN cache.carbon

\* C2 witness: the service is ready, a later cycle is running, and a region's
\* offer list is present but empty.
C2_Witness ==
  /\ startPc = "returned"
  /\ loopPc = "gather"
  /\ \E r \in RegionIds : r \in DOMAIN cache.gpu_prices /\ cache.gpu_prices[r] = <<>>

\* C3 (as claimed): whenever a region is installed, for every SKU whose
\* installed price P differs from its fetched price P', exactly one event is
\* emitted for that SKU, and it carries old_price = P and new_price = P'.
C3_ExactlyOneEvent ==
  \A o \in Elems(lastStep.old), n \in Elems(lastStep.new) :
    (o.sku = n.sku /\ o.spot_price_usd_hr # n.spot_price_usd_hr) =>
      /\ Cardinality(EventsFor(lastStep.events, o.sku)) = 1
      /\ \A i \in EventsFor(lastStep.events, o.sku) :
           /\ lastStep.events[i].old_price = o.spot_price_usd_hr
           /\ lastStep.events[i].new_price = n.spot_price_usd_hr

C11_SchedulerSurvives ==
  /\ [](loopPc # "ended")
  /\ [][raisedIn' # raisedIn => loopPc' = "sleep" /\ scraperTask' = scraperTask]_vars
  /\ \A k \in 1..(MaxCycles - 1) :
       (cycleSeq = k /\ ~stopped) ~> (cycleSeq > k \/ stopped)

\* C11 witness: a cycle of the loop raised and a later cycle is running.
C11_Witness ==
  /\ \E k \in raisedIn : k < cycleSeq
  /\ loopPc = "gather"
  /\ ~stopped

\* C12 (as claimed): every cycle after the startup cycle begins when a sleep
\* of the loop task has elapsed, never straight after the previous cycle.
C12_WaitBetweenCycles ==
  [][cycleSeq >= 1 /\ cycleSeq' = cycleSeq + 1 => loopPc = "sleep"]_vars

\* C13: the startup cycle and a cycle of the loop are never in progress
\* together, a cycle of the loop runs only after start_scraper has returned,
\* and every installation is made by the cycle started last, so the writes of
\* an earlier cycle never follow those of a later one.
C13_OneCycleAtATime ==
  /\ [](/\ ~(cyc["start"] # Idle /\ cyc["loop"] # Idle)
        /\ cyc["loop"] # Idle => startPc = "returned"
        /\ \A runner \in {"start", "loop"} : cyc[runner] # Idle => cyc[runner].id = cycleSeq)
  /\ [][lastStep' # lastStep => lastStep'.cycle = cycleSeq]_vars

\* C13 witness: a cycle of the loop has installed its first region and is
\* gathering the second.
C13_Witness ==
  /\ loopPc = "gather"
  /\ cyc["loop"].idx = 2
  /\ lastStep.cycle = cyc["loop"].id

\* C14: once stop_scraper has been called the loop task is cancelled, no cycle
\* is started and nothing is written to the cache.
C14_NoCycleAfterStop ==
  /\ [](stopped => loopPc = "cancelled" /\ cyc["loop"] = Idle /\ ~scraperTask)
  /\ [][stopped => cycleSeq' = cycleSeq /\ cache' = cache /\ origin' = origin]_vars

\* C14 witness: stop_scraper was called during a cycle of the loop, after its
\* first installation, when the cycle bound still allowed another cycle.
C14_Witness ==
  /\ stopped
  /\ cycleSeq < MaxCycles
  /\ raisedIn = {}
  /\ cache.scrape_count < cycleSeq
  /\ lastStep.cycle = cycleSeq

\* C15 (as claimed): a call of stop_scraper while the loop task is suspended
\* in a gather leaves the cycle in progress.
C15_InFlightCycleNotInterrupted ==
  [][~stopped /\ stopped' /\ loopPc = "gather" => loopPc' = "gather" /\ cyc' = cyc]_vars

\* C16: an exception leaves a cycle only where the client context is left,
\* never from a gather, whatever calls failed in it; every gather that
\* completes installs its region; when the last gather is done every region
\* holds the entries of this cycle; and the cycle then ends with the counter
\* incremented.
C16_AdaptersNeverRaise ==
  /\ [](\A runner \in {"start", "loop"} :
          (IF runner = "start" THEN startPc ELSE loopPc) = "closing" =>
            \A r \in RegionIds :
              /\ r \in DOMAIN cache.gpu_prices /\ origin.gpu_prices[r] = cyc[runner].id
              /\ r \in DOMAIN cache.weather /\ origin.weather[r] = cyc[runner].id
              /\ r \in DOMAIN cache.carbon /\ origin.carbon[r] = cyc[runner].id)
  /\ [][/\ raisedIn' # raisedIn => "closing" \in {startPc, loopPc}
        /\ upsetsLeft' < upsetsLeft /\ raisedIn' = raisedIn /\ market' = market =>
             /\ lastStep'.cycle = cycleSeq
             /\ origin'.gpu_prices[lastStep'.region] = cycleSeq
             /\ "gather" \in {startPc', loopPc'} \/ "closing" \in {startPc', loopPc'}
        /\ loopPc = "closing" /\ loopPc' = "sleep" /\ raisedIn' = raisedIn =>
             cache'.scrape_count = cache.scrape_count + 1]_vars

\* C16 witness: a cycle has completed in which every family query, the
\* weather fetch and the live carbon fetch of one region failed, and other
\* calls too.
C16_Witness ==
  /\ loopPc = "sleep"
  /\ cache.scrape_count = cycleSeq
  /\ \A c \in {"NC", "NV", "ND", "weather", "carbon"} : <<"uksouth", c>> \in lastStep.failed
  /\ Cardinality(lastStep.failed) = MaxOutage

\* C17 (as claimed): when the latest cycle has installed its last region and
\* no later cycle has begun, the status summary holds one note for every
\* external call that failed in the cycle (ten failures at most).
C17_EveryFailureNoted ==
  (/\ lastStep.cycle = cycleSeq
   /\ lastStep.region = REGIONS[Len(REGIONS)]
   /\ Cardinality(lastStep.failed) <= 10)
  => /\ Len(get_scraper_status(cache).errors) = Cardinality(lastStep.failed)
     /\ \A f \in lastStep.failed :
          \E i \in 1..Len(get_scraper_status(cache).errors) :
            /\ get_scraper_status(cache).errors[i].call = f[2]
            /\ get_scraper_status(cache).errors[i].region \in {f[1], "UK"}

\* C18: when the latest cycle has installed its last region, no later cycle
\* has begun and the live carbon call of uksouth was the only call that failed
\* in it, the carbon sample of uksouth is its static default and the status
\* summary holds exactly one note, the "Carbon UK" one; once the cycle is no
\* longer running it has completed (its timestamp is set), unless its task
\* was cancelled or leaving the client context raised; the regions without a
\* live source always hold their static default, and no note is ever about
\* their carbon.
C18_CarbonFallback ==
  /\ (/\ lastStep.cycle = cycleSeq
      /\ lastStep.region = REGIONS[Len(REGIONS)]
      /\ lastStep.failed = {<<"uksouth", "carbon">>})
     => /\ cache.carbon["uksouth"] = CARBON_DEFAULTS["uksouth"]
        /\ get_scraper_status(cache).errors
             = <<[source |-> "Carbon UK", region |-> "UK", call |-> "carbon"]>>
        /\ (/\ cyc["start"] = Idle
            /\ cyc["loop"] = Idle
            /\ cycleSeq \notin raisedIn
            /\ loopPc # "cancelled")
           => cache.last_scrape = <<cycleSeq>>
  /\ \A r \in RegionIds \ {"uksouth"} :
       /\ r \in DOMAIN cache.carbon => cache.carbon[r] = CARBON_DEFAULTS[r]
       /\ \A i \in 1..Len(cache.errors) :
            cache.errors[i].call = "carbon" => cache.errors[i].source = "Carbon UK"

\* C18 witness: such a cycle has completed.
C18_Witness ==
  /\ cache.last_scrape = <<cycleSeq>>
  /\ lastStep.cycle = cycleSeq
  /\ lastStep.failed = {<<"uksouth", "carbon">>}
  /\ cache.carbon["uksouth"].source = "Carbon Intensity UK API"

\* C19 (as claimed): when the latest cycle has installed its last region and
\* no later cycle has begun, then for every call that failed in the cycle the
\* region's three entries are present, the signal of the failed call holds its
\* fallback (the weather defaults with an empty hourly list, the static carbon
\* default, the estimated on-demand price and savings), and the status
\* summary holds an error note.
C19_OutageShowsFallbackAndNote ==
  (/\ lastStep.cycle = cycleSeq
   /\ lastStep.region = REGIONS[Len(REGIONS)])
  => \A f \in lastStep.failed :
       /\ f[1] \in DOMAIN cache.gpu_prices
       /\ f[1] \in DOMAIN cache.weather
       /\ f[1] \in DOMAIN cache.carbon
       /\ f[2] = "weather" =>
            cache.weather[f[1]] = [current_temp_c |-> 10, current_wind_kmh |-> 15,
                                   current_solar_wm2 |-> 0, hourly |-> <<>>]
       /\ f[2] = "carbon" => cache.carbon[f[1]] = CARBON_DEFAULTS[f[1]]
       /\ \A i \in 1..Len(OdCalls) :
            f[2] = OdCalls[i] =>
              /\ cache.gpu_prices[f[1]][i].ondemand_price_usd_hr
                   = 5 * cache.gpu_prices[f[1]][i].spot_price_usd_hr
              /\ cache.gpu_prices[f[1]][i].savings_pct = 800
       /\ get_scraper_status(cache).errors # <<>>

\* C20: every offer of a region just installed has an integer savings figure
\* (in tenths of a percent); an offer whose on-demand lookup failed has an
\* on-demand price of 5 times its spot price and savings of 80.0; an offer
\* whose lookup answered has the listed on-demand price and, when that is
\* positive, the savings figure nearest to (1 - spot / on_demand) * 100.
C20_SavingsAlwaysPresent ==
  /\ \A r \in DOMAIN cache.gpu_prices : \A i \in 1..Len(cache.gpu_prices[r]) :
       cache.gpu_prices[r][i].savings_pct \in Int
  /\ \A i \in 1..Len(lastStep.new) :
       LET g == lastStep.new[i]
           od == g.ondemand_price_usd_hr
           diff == g.savings_pct * od - 1000 * (od - g.spot_price_usd_hr)
       IN  IF <<lastStep.region, OdCalls[i]>> \in lastStep.failed
           THEN od = 5 * g.spot_price_usd_hr /\ g.savings_pct = 800
           ELSE /\ od = OnDemandPrice[lastStep.region]
                /\ od > 0 => 2 * diff <= od /\ -2 * diff <= od

\* C20 witness: a region was installed with an offer whose on-demand lookup
\* failed, while another region holds an offer with rounded savings of 66.7.
C20_Witness ==
  /\ lastStep.new # <<>>
  /\ <<lastStep.region, "od1">> \in lastStep.failed
  /\ lastStep.new[1].savings_pct = 800
  /\ "westeurope" \in DOMAIN cache.gpu_prices
  /\ cache.gpu_prices["westeurope"] # <<>>
  /\ cache.gpu_prices["westeurope"][1].savings_pct = 667

C6_SafeInterleaving ==
  /\ removeError = {}
  /\ \A i, j \in 1..Len(connections) : connections[i] = connections[j] => i = j
  /\ \A ws \in Clients : handler[ws] = "closed" => ws \notin Members(connections)

\* C7 (as claimed): no send is started to a socket whose handler has processed
\* its disconnect, and no fan-out pass ends having skipped
\* a socket that was in the list from the start of the pass to its end.
C7_DisconnectHarmless ==
  /\ ~lastPass.late
  /\ ~lastPass.missed

\* C8 (as claimed): a fan-out pass in which a send failed has still tried
\* every socket that stayed in the list, leaves the failed socket in the list
\* until the pass has visited all of them, and ends with the dispatcher
\* awaiting the next event.
C8_FailureIsolated ==
  /\ lastPass.failed => ~lastPass.missed /\ ~lastPass.crashed
  /\ dispatcher.task = "sending" => Members(dispatcher.dead) \subseteq Members(connections)

\* C9 (as claimed): every event written to a socket was emitted after the
\* socket joined the connection list.
C9_NoReplay ==
  \A ws \in Clients : \A i \in 1..Len(wslog[ws]) :
    wslog[ws][i].type = "az_price_update" => wslog[ws][i].timestamp > joinedAt[ws]

\* C10: the first message written to a socket is the "connected" message with
\* the status summary and a subscriber count that includes the socket, and it
\* is the only "connected" message; it is written in the step that adds the
\* socket to the list, so no broadcast precedes it.
C10_WelcomeFirst ==
  /\ [](\A ws \in Clients :
          /\ wslog[ws] # <<>> =>
               /\ wslog[ws][1].type = "connected"
               /\ wslog[ws][1].scraper_status = get_scraper_status(cache)
               /\ wslog[ws][1].active_clients \in 1..Cardinality(Clients)
          /\ \A i \in 2..Len(wslog[ws]) : wslog[ws][i].type # "connected"
          /\ ws \in Members(connections) => wslog[ws] # <<>>)
  /\ [][\A ws \in Clients :
          handler[ws] = "new" /\ handler'[ws] # "new" =>
            /\ ws \in Members(connections')
            /\ Len(wslog'[ws]) = 1
            /\ wslog'[ws][1].active_clients = Len(connections')]_vars

\* C10 witness: an event was written to a socket after its welcome message
\* while the welcome send had not yet completed.
C10_Witness ==
  \E ws \in Clients :
    /\ handler[ws] = "welcome"
    /\ Len(wslog[ws]) = 2
    /\ wslog[ws][2].type = "az_price_update"

\* C21: in every step the cycle counter stays or grows by one; it grows
\* exactly in the steps that set the timestamp, and such a step ends a cycle
\* whose every region holds the entries of that cycle and stamps the cache
\* with that cycle; a step in which a cycle raises or the task is cancelled
\* leaves counter and timestamp as they are; the counter never exceeds the
\* number of cycles started.
C21_CounterPerCompletedCycle ==
  /\ [](cache.scrape_count <= cycleSeq)
  /\ [][/\ cache'.scrape_count \in {cache.scrape_count, cache.scrape_count + 1}
        /\ (cache'.scrape_count = cache.scrape_count + 1)
             <=> (cache'.last_scrape # cache.last_scrape)
        /\ cache'.scrape_count = cache.scrape_count + 1 =>
             \E runner \in {"start", "loop"} :
               /\ cyc[runner] # Idle
               /\ cyc'[runner] = Idle
               /\ cache'.last_scrape = <<cyc[runner].id>>
               /\ \A r \in RegionIds :
                    /\ r \in DOMAIN origin.gpu_prices
                    /\ origin.gpu_prices[r] = cyc[runner].id
                    /\ origin.weather[r] = cyc[runner].id
                    /\ origin.carbon[r] = cyc[runner].id
        /\ (raisedIn' # raisedIn \/ stopped' # stopped) =>
             /\ cache'.scrape_count = cache.scrape_count
             /\ cache'.last_scrape = cache.last_scrape]_vars

\* C21 witness: one cycle has completed, a later one was cancelled after it
\* had installed a region, and the counter is still one.
C21_Witness ==
  /\ stopped
  /\ cache.scrape_count = 1
  /\ cache.last_scrape = <<1>>
  /\ cycleSeq = 2
  /\ lastStep.cycle = 2

\* C22: the error notes are emptied exactly in the step that begins a cycle;
\* every other step keeps all notes, in order, in front of the ones it adds;
\* and the status summary shows the latest notes, ten at most: all of them
\* when there are ten or fewer, else the last ten in order.
C22_ErrorRingClearedAtCycleStart ==
  /\ [][/\ cycleSeq' # cycleSeq => cache'.errors = <<>>
        /\ cycleSeq' = cycleSeq =>
             /\ Len(cache'.errors) >= Len(cache.errors)
             /\ \A i \in 1..Len(cache.errors) : cache'.errors[i] = cache.errors[i]]_vars
  /\ [](LET shown == get_scraper_status(cache).errors
            skip == Len(cache.errors) - Len(shown)
        IN  /\ Len(shown) <= 10
            /\ Len(shown) = (IF Len(cache.errors) <= 10 THEN Len(cache.errors) ELSE 10)
            /\ \A i \in 1..Len(shown) : shown[i] = cache.errors[skip + i])

\* C22 witness: a cycle that began after the ring was full has itself
\* recorded more than ten notes, the oldest of which differs from the
\* oldest one shown.
C22_Witness ==
  /\ cycleSeq = MaxCycles
  /\ loopPc = "sleep"
  /\ Len(cache.errors) > 10
  /\ get_scraper_status(cache).errors[1] # cache.errors[1]

\* C23: within a cycle the regions are installed one after another in the
\* order of REGIONS; the cycle that produced a region's offer list never
\* goes back; in every step that processes a region the list the detector
\* compared against is the one the cache held before the step and the cache
\* after the step holds the new list for that region, produced by the
\* current cycle; events are enqueued only in such steps, behind the ones
\* already queued, and every event enqueued names that region and carries as
\* new price the price of its SKU in the list now cached.
C23_InstallBeforeEmit ==
  [][/\ \A r \in DOMAIN origin.gpu_prices :
          /\ r \in DOMAIN origin'.gpu_prices
          /\ origin'.gpu_prices[r] >= origin.gpu_prices[r]
     /\ lastStep' # lastStep =>
          /\ \E i \in 1..Len(REGIONS) :
               /\ lastStep'.region = REGIONS[i]
               /\ i > 1 => /\ lastStep.region = REGIONS[i - 1]
                           /\ lastStep.cycle = lastStep'.cycle
               /\ i = 1 => lastStep.cycle < lastStep'.cycle
          /\ \A r \in RegionIds \ {lastStep'.region} :
               /\ cache'.gpu_prices = cache.gpu_prices
                    \/ DictGet(cache'.gpu_prices, r, <<>>) = DictGet(cache.gpu_prices, r, <<>>)
               /\ DictGet(origin'.gpu_prices, r, 0) = DictGet(origin.gpu_prices, r, 0)
          /\ lastStep'.old = DictGet(cache.gpu_prices, lastStep'.region, <<>>)
          /\ lastStep'.region \in DOMAIN cache'.gpu_prices
          /\ cache'.gpu_prices[lastStep'.region] = lastStep'.new
          /\ origin'.gpu_prices[lastStep'.region] = lastStep'.cycle
     /\ eventQueue' # eventQueue =>
          LET r == lastStep'.region
          IN  /\ lastStep' # lastStep
              /\ Len(eventQueue') = Len(eventQueue) + Len(lastStep'.events)
              /\ \A i \in 1..Len(eventQueue) : eventQueue'[i] = eventQueue[i]
              /\ \A i \in (Len(eventQueue) + 1)..Len(eventQueue') :
                   /\ eventQueue'[i].region = r
                   /\ \E o \in Elems(cache'.gpu_prices[r]) :
                        /\ o.sku = eventQueue'[i].instance
                        /\ o.spot_price_usd_hr = eventQueue'[i].new_price]_vars

\* C23 witness: the second region of a loop cycle has just been installed
\* with a changed price, its event is in the queue and the cache holds the
\* list with that price.
C23_Witness ==
  /\ lastStep.region = REGIONS[2]
  /\ lastStep.cycle = 2
  /\ Len(lastStep.events) = 1
  /\ eventQueue # <<>>
  /\ eventQueue[Len(eventQueue)].region = REGIONS[2]
  /\ \E o \in Elems(cache.gpu_prices[REGIONS[2]]) :
       o.spot_price_usd_hr = eventQueue[Len(eventQueue)].new_price
  /\ lastStep.old # lastStep.new

\* C24: the events written to a socket are events that were accepted into
\* the queue, in the order of their acceptance (the k-th accepted event
\* carries timestamp k), each at most once; the events still queued are in
\* that order too, and the dispatcher takes them from the head.
C24_FifoAtMostOnce ==
  /\ [](\A ws \in Clients :
          \A i \in 1..Len(wslog[ws]) :
            wslog[ws][i].type = "az_price_update" =>
              /\ wslog[ws][i].timestamp \in 1..emitCount
              /\ \A j \in 1..(i - 1) :
                   wslog[ws][j].type = "az_price_update" =>
                     wslog[ws][j].timestamp < wslog[ws][i].timestamp)
  /\ [](\A i \in 1..Len(eventQueue) : \A j \in 1..(i - 1) :
          eventQueue[j].timestamp < eventQueue[i].timestamp)
  /\ [][Len(eventQueue') < Len(eventQueue) =>
          /\ eventQueue' = Tail(eventQueue)
          /\ dispatcher'.task # "get" => dispatcher'.event = <<Head(eventQueue)>>]_vars

\* C24 witness: a socket has received two events, and a second socket that
\* joined between them has received only the later one.
C24_Witness ==
  \E ws, other \in Clients :
    /\ ws # other
    /\ Len(wslog[ws]) = 3
    /\ wslog[ws][2].type = "az_price_update" /\ wslog[ws][2].timestamp = 1
    /\ wslog[ws][3].type = "az_price_update" /\ wslog[ws][3].timestamp = 2
    /\ Len(wslog[other]) = 2
    /\ wslog[other][2].type = "az_price_update" /\ wslog[other][2].timestamp = 2

\* C25 (as claimed): in every offer list installed for a region each SKU
\* appears at most once and is a SKU of the identification table, and in the
\* step that installs the list each offer carries the lowest price among the
\* entries that the answered family queries of that step returned for its
\* SKU.
C25_SkuOnceLowestPrice ==
  /\ [](\A r \in DOMAIN cache.gpu_prices :
          LET list == cache.gpu_prices[r]
          IN  /\ \A i, j \in 1..Len(list) : i # j => list[i].sku # list[j].sku
              /\ \A i \in 1..Len(list) : _identify_gpu(list[i].sku) # <<>>)
  /\ [][lastStep' # lastStep =>
          LET r == lastStep'.region
              answered == {p \in Elems(PrefixTypes) : <<r, p>> \notin lastStep'.failed}
              entries == UNION {Elems(market[r][p]) : p \in answered}
          IN  \A o \in Elems(cache'.gpu_prices[r]) :
                /\ \E it \in entries :
                     it.armSkuName = o.sku /\ it.retailPrice = o.spot_price_usd_hr
                /\ \A it \in entries :
                     it.armSkuName = o.sku => o.spot_price_usd_hr <= it.retailPrice]_vars

\* C26 (as claimed): after a successful weather fetch each of the three
\* current values is the sample at the UTC hour index when its sequence is
\* long enough and the first sample of its sequence when the index is out of
\* range, and the hourly list has min(24, number of temperature samples)
\* entries; after a failed fetch the result is 10, 15, 0 and an empty hourly
\* list.
C26_WeatherClamping ==
  (probe.fn = "_scrape_weather" /\ probe.out # <<>>) =>
    LET out == probe.out[1]
        h == probe.arg.now_hour
        Current(s, cur) == IF h < Len(s) THEN cur = s[h + 1]
                           ELSE s # <<>> => cur = s[1]
    IN  IF probe.arg.response = <<>>
        THEN out = [current_temp_c |-> 10, current_wind_kmh |-> 15, current_solar_wm2 |-> 0,
                    hourly |-> <<>>]
        ELSE LET w == probe.arg.response[1]
             IN  /\ Current(w.temperature_2m, out.current_temp_c)
                 /\ Current(w.windspeed_10m, out.current_wind_kmh)
                 /\ Current(w.direct_radiation, out.current_solar_wm2)
                 /\ Len(out.hourly) = (IF Len(w.temperature_2m) < 24
                                       THEN Len(w.temperature_2m) ELSE 24)

\* C27 (as claimed): after a successful live fetch for uksouth the returned
\* intensity is the actual value whenever the response carries one, 0
\* included, and the forecast value when it carries no actual value but a
\* forecast; and the result carries the live tag exactly when it came from a
\* successful live fetch.
C27_ActualPreferred ==
  (probe.fn = "_scrape_carbon" /\ probe.out # <<>>) =>
    LET out == probe.out[1]
        live == probe.arg.region_id = "uksouth" /\ probe.arg.response # <<>>
    IN  /\ (out.source = "carbonintensity.org.uk (LIVE)") <=> live
        /\ live =>
             LET intensity == probe.arg.response[1]
             IN  /\ intensity.actual # <<>> => out.gco2_kwh = intensity.actual[1]
                 /\ (intensity.actual = <<>> /\ intensity.forecast # <<>>) =>
                      out.gco2_kwh = intensity.forecast[1]

\* C28 (as claimed): a connection made while the dispatcher task is alive
\* creates no second one, and under fair scheduling of the dispatcher every
\* event accepted into the queue is eventually taken out of it, whatever the
\* clients do.
C28_EveryEventDequeued ==
  /\ [][(Len(connections') > Len(connections) /\ dispatcher.task \in {"get", "sending"})
          => dispatcher' = dispatcher]_vars
  /\ \A k \in 1..MaxEvents :
       (\E i \in 1..Len(eventQueue) : eventQueue[i].timestamp = k)
         ~> ~(\E i \in 1..Len(eventQueue) : eventQueue[i].timestamp = k)

\* C29: a step that installs a region leaves the offers, weather and carbon
\* entries of every other region, the cycle counter and the timestamp as
\* they were, and replaces the three entries of the region itself; a step in
\* which get_region_data, get_cache or get_scraper_status is called leaves
\* the cache as it was and returns what the cache holds.
C29_FrameOfInstallAndReads ==
  [][/\ lastStep' # lastStep =>
          /\ \A r \in RegionIds \ {lastStep'.region} :
               /\ (r \in DOMAIN cache'.gpu_prices) <=> (r \in DOMAIN cache.gpu_prices)
               /\ (r \in DOMAIN cache'.weather) <=> (r \in DOMAIN cache.weather)
               /\ (r \in DOMAIN cache'.carbon) <=> (r \in DOMAIN cache.carbon)
               /\ r \in DOMAIN cache.gpu_prices => cache'.gpu_prices[r] = cache.gpu_prices[r]
               /\ r \in DOMAIN cache.weather => cache'.weather[r] = cache.weather[r]
               /\ r \in DOMAIN cache.carbon => cache'.carbon[r] = cache.carbon[r]
          /\ cache'.scrape_count = cache.scrape_count
          /\ cache'.last_scrape = cache.last_scrape
          /\ origin'.gpu_prices[lastStep'.region] = lastStep'.cycle
          /\ origin'.weather[lastStep'.region] = lastStep'.cycle
          /\ origin'.carbon[lastStep'.region] = lastStep'.cycle
     /\ probe' # probe =>
          /\ cache' = cache
          /\ origin' = origin
          /\ probe'.fn = "get_cache" => probe'.out = <<cache>>
          /\ probe'.fn = "get_scraper_status" =>
               /\ probe'.out[1].scrape_count = cache.scrape_count
               /\ probe'.out[1].last_scrape = cache.last_scrape
          /\ probe'.fn = "get_region_data" =>
               LET rid == probe'.out[1].region_id
               IN  /\ rid \in RegionIds
                   /\ probe'.arg[1] \in RegionIds => rid = probe'.arg[1]
                   /\ \A k \in 1..Len(probe'.out[1].availability_zones) :
                        LET gi == probe'.out[1].availability_zones[k].gpu_instances
                        IN  /\ Len(gi) = Len(cache.gpu_prices[rid])
                            /\ \A n \in 1..Len(gi) :
                                 gi[n].spot_price_usd_hr
                                   = cache.gpu_prices[rid][n].spot_price_usd_hr]_vars

\* C29 witness: while the second cycle is under way, with its first region
\* installed after a failed family query (its offer list is now empty) and
\* the others still from the first cycle, a per-region read has returned the
\* empty list.
C29_Witness ==
  /\ lastStep.cycle = 2
  /\ lastStep.region = REGIONS[1]
  /\ lastStep.old # <<>>
  /\ lastStep.new = <<>>
  /\ origin.gpu_prices[REGIONS[2]] = 1
  /\ cache.gpu_prices[REGIONS[2]] # <<>>
  /\ probe.fn = "get_region_data"
  /\ probe.arg = <<REGIONS[1]>>
  /\ probe.out[1].availability_zones[1].gpu_instances = <<>>

====
